---- MODULE Spec2Model ----
(***************************************************************************)
(* Model of the Hive connection manager (src/python/hive_connection.py)   *)
(* and of the visualization fan-out (src/python/visualizations.py).       *)
(*                                                                         *)
(* One HiveConnectionManager object is modelled from its construction on. *)
(* Its client calls connect, execute_query and close_connection directly, *)
(* or uses the manager as a with-block (__enter__ / body / __exit__).     *)
(* The Hive server and the pyhive library are the environment: every      *)
(* library call that can raise is an input drawn with \E.                 *)
(*                                                                         *)
(* A hive.Connection object is identified by the order of its creation    *)
(* (1, 2, ...); 0 stands for None.  The manager asks a connection for at  *)
(* most one cursor, so a cursor carries the number of its connection.     *)
(*                                                                         *)
(* Besides the manager's two fields the state records what the latest     *)
(* operation did (its return value, the library calls it made); these     *)
(* records are cleared when the client starts the next operation.         *)
(***************************************************************************)
EXTENDS Integers, Naturals, Sequences, FiniteSets, TLC

\* ---------------------------------------------------------------- bounds
MaxRetriesArg == 2      \* largest max_retries a direct caller of connect passes
MaxCalls == 3           \* top-level operations performed on the manager
MaxRuns == 2            \* generate_all_visualizations calls on one generator
MaxStamp == 2           \* distinct run timestamps

\* ------------------------------------------------------ program constants
DefaultMaxRetries == 5  \* connect(self, max_retries=5, ...)

None == 0

VARIABLES
    connection,     \* self.connection: None or the number of a hive.Connection
    cursor,         \* self.cursor: None or the number of the cursor's connection
    opened,         \* how many hive.Connection objects were created so far
    connCloses,     \* connCloses[s]: calls of close() on connection s
    curCloses,      \* curCloses[s]: calls of close() on the cursor of connection s
    pc,             \* position of the client: "idle", "connect", "body"
    inWith,         \* the running connect was called by __enter__
    max_retries,    \* argument of the latest connect call
    attempt,        \* loop variable of connect (0-based index of the next attempt)
    sleeps,         \* time.sleep(retry_delay) calls made by the current connect call
    attempts,       \* attempts started by the current connect call
    lastOutcome,    \* how the latest attempt ended
    sleptAfterLast, \* a time.sleep followed the latest attempt
    attemptSession, \* connection created by the latest attempt (None if refused)
    rowSession,     \* connection whose cursor returned a row to the latest attempt
    connectResult,  \* value returned by the latest connect call: "none", "True", "False"
    calls,          \* top-level operations started so far
    scope,          \* with-block: "none", "entered", "exited", "refused"
    scopeCloses,    \* close_connection calls since the with-block was entered
    bodyOutcome,    \* how the with-block body ended: "none", "ok", "query_failed", "raised"
    blockOutcome,   \* what the with-statement hands on: "none", "value", "None", "raised", "close_error"
    lastClose,      \* latest close_connection: "none", "returned", "raised"
    lastCloseReleases, \* release calls (cursor.close, connection.close) made by it
    closesSinceConnect, \* close_connection calls that returned since the latest connect call
    queryResult,    \* value returned by the latest execute_query: "none", "df", "empty_df", "None"
    querySentOn,    \* cursor the latest execute_query executed on (None if it did not)
    queryEngine,    \* what the engine did with it: "none", "not_sent", "rows", "empty", "error"
    queryFetch,     \* its fetch_results argument
    queryAfterError, \* the execute_query before it, on this manager, ended by an engine error
    vizPc,          \* generator: "none" (not constructed), "ready", "running", "returned"
    output_dir,     \* self.output_dir
    timestamp,      \* self.timestamp
    df,             \* columns of the table the running call works on
    dfGiven,        \* the caller passed the table (FALSE: sample data was generated)
    nextTarget,     \* position in the sequence of targets of the running call
    results,        \* the dict "results": sequence of [key, path] in insertion order
    invoked,        \* targets called by the latest generate_all_visualizations
    failedTarget,   \* target whose exception ended the latest call ("none" if none)
    written,        \* paths of the artifacts written by the latest call
    runs,           \* calls of the generator's methods started so far
    dfAtCall,       \* columns of the table when the running call received it
    pathsSeen,      \* [key, path] of every artifact the generator has written
    loadResult,     \* value of the latest load_hive_data: "none", "df", "sample"
    loadOpened,     \* its hive.Connection(...) returned a connection
    loadCloseCalls  \* close() calls it made on that connection

hiveVars == << connection, cursor, opened, connCloses, curCloses, pc, inWith,
               max_retries, attempt, sleeps, attempts, lastOutcome, sleptAfterLast,
               attemptSession, rowSession, connectResult, calls, scope,
               scopeCloses, bodyOutcome, blockOutcome, lastClose,
               lastCloseReleases, closesSinceConnect, queryResult, querySentOn,
               queryEngine, queryFetch, queryAfterError >>

vizVars == << vizPc, output_dir, timestamp, df, dfGiven, nextTarget, results,
              invoked, failedTarget, written, runs, dfAtCall, pathsSeen,
              loadResult, loadOpened, loadCloseCalls >>

vars == << hiveVars, vizVars >>

\* How one iteration of the retry loop can end (lines 56-69):
\*   refused       hive.Connection(...) raises
\*   cursor_error  self.connection.cursor() raises
\*   query_error   cursor.execute("SELECT 1") or cursor.fetchone() raises
\*   no_row        fetchone() returns None (a falsy result)
\*   row           fetchone() returns a row
AttemptOutcomes == {"refused", "cursor_error", "query_error", "no_row", "row"}
RaisingOutcomes == {"refused", "cursor_error", "query_error"}

\* __init__ (lines 30-35)
Init ==
    /\ connection = None
    /\ cursor = None
    /\ opened = 0
    /\ connCloses = << >>
    /\ curCloses = << >>
    /\ pc = "idle"
    /\ inWith = FALSE
    /\ max_retries = 0
    /\ attempt = 0
    /\ sleeps = 0
    /\ attempts = 0
    /\ lastOutcome = "none"
    /\ sleptAfterLast = FALSE
    /\ attemptSession = None
    /\ rowSession = None
    /\ connectResult = "none"
    /\ calls = 0
    /\ scope = "none"
    /\ scopeCloses = 0
    /\ bodyOutcome = "none"
    /\ blockOutcome = "none"
    /\ lastClose = "none"
    /\ lastCloseReleases = 0
    /\ closesSinceConnect = 0
    /\ queryResult = "none"
    /\ querySentOn = None
    /\ queryEngine = "none"
    /\ queryFetch = FALSE
    /\ queryAfterError = FALSE
    /\ vizPc = "none"
    /\ output_dir = "none"
    /\ timestamp = 0
    /\ df = {}
    /\ dfGiven = FALSE
    /\ nextTarget = 1
    /\ results = << >>
    /\ invoked = << >>
    /\ failedTarget = "none"
    /\ written = {}
    /\ runs = 0
    /\ dfAtCall = {}
    /\ pathsSeen = {}
    /\ loadResult = "none"
    /\ loadOpened = FALSE
    /\ loadCloseCalls = 0

\* -------------------------------------------- records of the latest operation

ForgetConnect ==
    /\ inWith' = FALSE
    /\ max_retries' = 0
    /\ attempt' = 0
    /\ sleeps' = 0
    /\ attempts' = 0
    /\ lastOutcome' = "none"
    /\ sleptAfterLast' = FALSE
    /\ attemptSession' = None
    /\ rowSession' = None

ForgetClose ==
    /\ lastClose' = "none"
    /\ lastCloseReleases' = 0

ForgetQuery ==
    /\ queryResult' = "none"
    /\ querySentOn' = None
    /\ queryEngine' = "none"
    /\ queryFetch' = FALSE
    /\ queryAfterError' = FALSE

ForgetScope ==
    /\ scope' = "none"
    /\ scopeCloses' = 0
    /\ bodyOutcome' = "none"
    /\ blockOutcome' = "none"

\* ------------------------------------------------------------------ connect

\* line 56: hive.Connection(...) returned, self.connection is assigned
AttemptOpens(o) == o # "refused"

\* line 63: self.connection.cursor() returned, self.cursor is assigned
AttemptCursor(o) == o \in {"query_error", "no_row", "row"}

\* Variant of AttemptReturnsTrue without the test of line 69: any fetchone()
\* that does not raise counts as success.
AttemptReturnsTrueUnchecked(o) == o \in {"row", "no_row"}

\* lines 69-71: "if result: return True"
AttemptReturnsTrue(o) == o = "row"

\* line 73: the except clause runs
AttemptRaises(o) == o \in RaisingOutcomes

\* Variant of AttemptSleeps without the test of line 75: every exception is
\* followed by a sleep, the last one too.
AttemptSleepsAlways(o, att, n) == AttemptRaises(o)

\* lines 75-77: "if attempt < max_retries - 1: time.sleep(retry_delay)"
AttemptSleeps(o, att, n) == AttemptRaises(o) /\ att < n - 1

\* lines 78-80: "else: return False"
AttemptReturnsFalse(o, att, n) == AttemptRaises(o) /\ ~(att < n - 1)

\* connect returns r to its caller.  Called directly (lines 41-82) the value goes
\* to the client; called by __enter__ (lines 250-255) True enters the with-block
\* body and False raises ConnectionError out of the with statement.
ConnectReturns(r) ==
    /\ connectResult' = r
    /\ IF inWith
       THEN IF r = "True"
            THEN pc' = "body" /\ scope' = "entered" /\ blockOutcome' = blockOutcome
            ELSE pc' = "idle" /\ scope' = "refused" /\ blockOutcome' = "raised"
       ELSE pc' = "idle" /\ UNCHANGED << scope, blockOutcome >>

\* connect(max_retries=n) is called: the loop of line 52 starts
ConnectStarts(n, fromWith) ==
    /\ pc' = "connect"
    /\ inWith' = fromWith
    /\ max_retries' = n
    /\ attempt' = 0
    /\ sleeps' = 0
    /\ attempts' = 0
    /\ lastOutcome' = "none"
    /\ sleptAfterLast' = FALSE
    /\ attemptSession' = None
    /\ rowSession' = None
    /\ connectResult' = "none"
    /\ closesSinceConnect' = 0
    /\ calls' = calls + 1
    /\ ForgetClose
    /\ ForgetQuery
    /\ ForgetScope
    /\ UNCHANGED << connection, cursor, opened, connCloses, curCloses >>

\* A client calls connect(max_retries=n) (line 41)
ConnectCall(n) ==
    /\ pc = "idle"
    /\ calls < MaxCalls
    /\ ConnectStarts(n, FALSE)
    /\ UNCHANGED vizVars

\* One iteration of "for attempt in range(max_retries)" (lines 52-80)
ConnectAttempt(o) ==
    /\ pc = "connect"
    /\ attempt < max_retries
    /\ opened' = IF AttemptOpens(o) THEN opened + 1 ELSE opened
    /\ connCloses' = IF AttemptOpens(o) THEN Append(connCloses, 0) ELSE connCloses
    /\ curCloses' = IF AttemptOpens(o) THEN Append(curCloses, 0) ELSE curCloses
    /\ connection' = IF AttemptOpens(o) THEN opened + 1 ELSE connection
    /\ cursor' = IF AttemptCursor(o) THEN opened + 1 ELSE cursor
    /\ attempts' = attempts + 1
    /\ lastOutcome' = o
    /\ attemptSession' = IF AttemptOpens(o) THEN opened + 1 ELSE None
    /\ rowSession' = IF o = "row" THEN cursor' ELSE None
    /\ sleptAfterLast' = AttemptSleeps(o, attempt, max_retries)
    /\ sleeps' = IF AttemptSleeps(o, attempt, max_retries) THEN sleeps + 1 ELSE sleeps
    /\ IF AttemptReturnsTrue(o)
       THEN ConnectReturns("True") /\ attempt' = attempt
       ELSE IF AttemptReturnsFalse(o, attempt, max_retries)
            THEN ConnectReturns("False") /\ attempt' = attempt
            ELSE /\ attempt' = attempt + 1
                 /\ UNCHANGED << pc, connectResult, scope, blockOutcome >>
    /\ UNCHANGED << inWith, max_retries, calls, scopeCloses, bodyOutcome, lastClose, lastCloseReleases, closesSinceConnect, queryResult,
                    querySentOn, queryEngine, queryFetch, queryAfterError >>
    /\ UNCHANGED vizVars

\* The loop ran out without an exception in its last iteration: line 82
ConnectExhausted ==
    /\ pc = "connect"
    /\ ~(attempt < max_retries)
    /\ ConnectReturns("False")
    /\ UNCHANGED << connection, cursor, opened, connCloses, curCloses, inWith,
                    max_retries, attempt, sleeps, attempts, lastOutcome,
                    sleptAfterLast, attemptSession, rowSession, calls, scopeCloses,
                    bodyOutcome, lastClose, lastCloseReleases,
                    closesSinceConnect, queryResult, querySentOn,
                    queryEngine, queryFetch, queryAfterError >>
    /\ UNCHANGED vizVars

\* --------------------------------------------------------- close_connection

\* lines 244-245: "if self.cursor: self.cursor.close()"
ClosesCursor == cursor # None

\* lines 246-247: "if self.connection: self.connection.close()", reached only
\* when cursor.close() did not raise
ClosesConnection(curRaises) == ~(ClosesCursor /\ curRaises) /\ connection # None

\* close_connection lets an exception of either close() escape (lines 244-248)
CloseRaises(curRaises, connRaises) ==
    \/ ClosesCursor /\ curRaises
    \/ ClosesConnection(curRaises) /\ connRaises

\* The body of close_connection (lines 240-248); the two close() calls of the
\* library raise or not as the environment decides.
CloseEffect(curRaises, connRaises) ==
    /\ curCloses' = IF ClosesCursor
                    THEN [curCloses EXCEPT ![cursor] = @ + 1]
                    ELSE curCloses
    /\ connCloses' = IF ClosesConnection(curRaises)
                     THEN [connCloses EXCEPT ![connection] = @ + 1]
                     ELSE connCloses
    /\ closesSinceConnect' = IF CloseRaises(curRaises, connRaises)
                             THEN closesSinceConnect
                             ELSE closesSinceConnect + 1
    /\ lastCloseReleases' = (IF ClosesCursor THEN 1 ELSE 0)
                            + (IF ClosesConnection(curRaises) THEN 1 ELSE 0)
    /\ lastClose' = IF CloseRaises(curRaises, connRaises) THEN "raised" ELSE "returned"
    /\ UNCHANGED << connection, cursor, opened >>

\* A client calls close_connection() (line 240)
CloseConnection(curRaises, connRaises) ==
    /\ pc = "idle"
    /\ calls < MaxCalls
    /\ calls' = calls + 1
    /\ CloseEffect(curRaises, connRaises)
    /\ ForgetConnect
    /\ ForgetQuery
    /\ ForgetScope
    /\ UNCHANGED << pc, connectResult >>
    /\ UNCHANGED vizVars

\* ------------------------------------------------------------ execute_query

\* What the engine does with a query: "rows", "empty" (no rows or no column
\* description), "error" (cursor.execute or fetchall raises)
EngineOutcomes == {"rows", "empty", "error"}

\* Variant of QueryValue that reports a result without rows like a failure
\* ("if results and columns: ... else: return None").
QueryValueEmptyAsNone(o, fetch) ==
    IF cursor = None THEN "None"
    ELSE IF o = "error" THEN "None"
    ELSE IF ~fetch THEN "None"
    ELSE IF o = "rows" THEN "df" ELSE "None"

\* lines 95-125: the value execute_query returns
QueryValue(o, fetch) ==
    IF cursor = None THEN "None"
    ELSE IF o = "error" THEN "None"
    ELSE IF ~fetch THEN "None"
    ELSE IF o = "rows" THEN "df" ELSE "empty_df"

\* line 102 is reached only with a cursor (line 95)
QuerySent == IF cursor = None THEN None ELSE cursor

\* What the engine is seen to do: nothing when line 95 returns early
EngineSeen(o) == IF cursor = None THEN "not_sent" ELSE o

\* Variant of CursorAfterQuery that gives the cursor up when the query fails
\* ("except Exception: self.cursor = None").
CursorDroppedOnError(o) == IF o = "error" THEN None ELSE cursor

\* execute_query assigns neither self.cursor nor self.connection; its except
\* clause logs and returns None (lines 123-125)
CursorAfterQuery(o) == cursor

\* The body of execute_query(query, fetch_results) (lines 95-125)
QueryEffect(o, fetch) ==
    /\ queryResult' = QueryValue(o, fetch)
    /\ querySentOn' = QuerySent
    /\ queryEngine' = EngineSeen(o)
    /\ queryFetch' = fetch
    /\ queryAfterError' = (queryEngine = "error")
    /\ cursor' = CursorAfterQuery(o)
    /\ UNCHANGED << connection, opened, connCloses, curCloses >>

\* A client calls execute_query(query, fetch_results) (line 84)
ExecuteQuery(o, fetch) ==
    /\ pc = "idle"
    /\ calls < MaxCalls
    /\ calls' = calls + 1
    /\ QueryEffect(o, fetch)
    /\ ForgetConnect
    /\ ForgetClose
    /\ ForgetScope
    /\ UNCHANGED << pc, connectResult, closesSinceConnect >>
    /\ UNCHANGED vizVars

\* --------------------------------------------------------------- with-block

\* "with HiveConnectionManager(...) as hive_conn:" calls __enter__, which calls
\* connect() with its default arguments (lines 250-252, 275, 293, 307)
WithEnter ==
    /\ pc = "idle"
    /\ calls < MaxCalls
    /\ ConnectStarts(DefaultMaxRetries, TRUE)
    /\ UNCHANGED vizVars

\* The body of the with-block runs a query (lines 276, 294, 309, 315);
\* execute_query reports a failed query by returning None.
WithBodyQuery(o) ==
    /\ pc = "body"
    /\ QueryEffect(o, TRUE)
    /\ bodyOutcome' = IF QueryValue(o, TRUE) = "None" THEN "query_failed" ELSE "ok"
    /\ pc' = "exit"
    /\ UNCHANGED << inWith,
                    max_retries, attempt, sleeps, attempts, lastOutcome,
                    sleptAfterLast, attemptSession, rowSession,
                    connectResult, calls, scope, scopeCloses, blockOutcome,
                    lastClose, lastCloseReleases, closesSinceConnect >>
    /\ UNCHANGED vizVars

\* A statement of the body raises (for instance print(tables), line 312)
WithBodyRaises ==
    /\ pc = "body"
    /\ bodyOutcome' = "raised"
    /\ pc' = "exit"
    /\ UNCHANGED << connection, cursor, opened, connCloses, curCloses, inWith,
                    max_retries, attempt, sleeps, attempts, lastOutcome,
                    sleptAfterLast, attemptSession, rowSession,
                    connectResult, calls, scope, scopeCloses, blockOutcome,
                    lastClose, lastCloseReleases, closesSinceConnect,
                    queryResult, querySentOn, queryEngine, queryFetch, queryAfterError >>
    /\ UNCHANGED vizVars

\* Variant of ExitCloses that closes only when the body raised nothing
\* ("if exc_type is None: self.close_connection()").
ExitClosesOnSuccess(how) == how \in {"ok", "query_failed"}

\* __exit__ calls close_connection whatever way the body ended (lines 257-259)
ExitCloses(how) == how \in {"ok", "query_failed", "raised"}

\* What leaves the with statement: an exception of close_connection replaces
\* the body's value or exception; __exit__ returns None, so an exception of the
\* body is not suppressed (lines 257-259).
BlockOutcome(how, closeRaised) ==
    IF closeRaised THEN "close_error"
    ELSE IF how = "raised" THEN "raised"
    ELSE IF how = "query_failed" THEN "None" ELSE "value"

\* The with statement leaves the block: __exit__ (lines 257-259)
WithExit(curRaises, connRaises) ==
    /\ pc = "exit"
    /\ IF ExitCloses(bodyOutcome)
       THEN /\ CloseEffect(curRaises, connRaises)
            /\ scopeCloses' = scopeCloses + 1
            /\ blockOutcome' = BlockOutcome(bodyOutcome, CloseRaises(curRaises, connRaises))
       ELSE /\ blockOutcome' = BlockOutcome(bodyOutcome, FALSE)
            /\ UNCHANGED << connection, cursor, opened, connCloses, curCloses,
                            closesSinceConnect, scopeCloses,
                            lastCloseReleases, lastClose >>
    /\ scope' = "exited"
    /\ pc' = "idle"
    /\ UNCHANGED << inWith, max_retries, attempt, sleeps, attempts, lastOutcome,
                    sleptAfterLast, attemptSession, rowSession,
                    connectResult, calls, bodyOutcome, queryResult, querySentOn,
                    queryEngine, queryFetch, queryAfterError >>
    /\ UNCHANGED vizVars

\* --------------------------------------------------------------------- Next

Next ==
    \/ \E n \in 0..MaxRetriesArg : ConnectCall(n)
    \/ \E o \in AttemptOutcomes : ConnectAttempt(o)
    \/ ConnectExhausted
    \/ \E cr \in BOOLEAN, nr \in BOOLEAN : CloseConnection(cr, nr)
    \/ \E o \in EngineOutcomes, f \in BOOLEAN : ExecuteQuery(o, f)
    \/ WithEnter
    \/ \E o \in EngineOutcomes : WithBodyQuery(o)
    \/ WithBodyRaises
    \/ \E cr \in BOOLEAN, nr \in BOOLEAN : WithExit(cr, nr)

Spec == Init /\ [][Next]_vars

\* ------------------------------------------------- visualization generator

\* The order of the calls in generate_all_visualizations (lines 476-491); the
\* names are the keys of "results".
TargetOrder == << "attack_distribution", "protocol_analysis", "temporal_analysis",
                 "interactive_dashboard", "anomaly_detection", "summary_report" >>

Targets == { TargetOrder[i] : i \in 1..Len(TargetOrder) }

\* Output roots a caller may pass to __init__ (line 34)
Roots == {"./output/visualizations", "./reports"}

\* Columns of the table _generate_sample_data builds (lines 104-120)
SampleColumns == {"attack_cat", "proto", "service", "sbytes", "dbytes", "dur",
                  "spkts", "dpkts", "hour_of_day", "label", "total_bytes",
                  "total_pkts"}

\* Tables a caller may pass: the sample's columns, with or without the columns
\* an earlier run over the same table has added
GivenTables == { SampleColumns \cup extra : extra \in SUBSET {"log_dur", "anomaly_score"} }

\* File extension of a target's artifact (lines 156, 203, 270, 338, 409, 454)
Extension(t) ==
    IF t = "interactive_dashboard" THEN "html"
    ELSE IF t = "summary_report" THEN "json" ELSE "png"

\* Variant of PathOf that names the file by its kind and the timestamp only
\* (f"chart_{self.timestamp}.png").
PathOfKind(t, root, ts) == [dir |-> root, stem |-> "chart", stamp |-> ts, ext |-> Extension(t)]

\* filepath = self.output_dir / f"{target}_{self.timestamp}.{ext}"
\* (lines 156-157, 203-204, 270-271, 338-339, 409-410, 454-455)
PathOf(t, root, ts) == [dir |-> root, stem |-> t, stamp |-> ts, ext |-> Extension(t)]

\* Column a target assigns in the table it is given (lines 249 and 354)
AddedColumns(t) ==
    IF t = "temporal_analysis" THEN {"log_dur"}
    ELSE IF t = "anomaly_detection" THEN {"anomaly_score"} ELSE {}

\* How a target's call can end: "ok" (the artifact is written and its path
\* returned), "raises_early" (an exception before the target assigns a column),
\* "raises_late" (an exception after that, e.g. in savefig or write_html)
RenderOutcomes == {"ok", "raises_early", "raises_late"}

\* __init__ (lines 34-43): the output root and the timestamp are fixed here
NewGenerator(root, ts) ==
    /\ vizPc = "none"
    /\ output_dir' = root
    /\ timestamp' = ts
    /\ vizPc' = "ready"
    /\ UNCHANGED << df, dfGiven, nextTarget, results, invoked, failedTarget,
                    written, runs, dfAtCall, pathsSeen, loadResult, loadOpened,
                    loadCloseCalls >>
    /\ UNCHANGED hiveVars

\* generate_all_visualizations(df) is called (lines 462-472): without a table
\* the sample data is generated; results starts empty
GenerateCall(given, table) ==
    /\ vizPc \in {"ready", "returned", "raised"}
    /\ runs < MaxRuns
    /\ runs' = runs + 1
    /\ dfGiven' = given
    /\ df' = IF given THEN table ELSE SampleColumns
    /\ dfAtCall' = IF given THEN table ELSE SampleColumns
    /\ nextTarget' = 1
    /\ results' = << >>
    /\ invoked' = << >>
    /\ failedTarget' = "none"
    /\ written' = {}
    /\ vizPc' = "running"
    /\ UNCHANGED << output_dir, timestamp, pathsSeen, loadResult, loadOpened,
                    loadCloseCalls >>
    /\ UNCHANGED hiveVars

\* Variant of EndsCall with one try block per target: a target that raises
\* does not end the call.
EndsCallAfterLast(o, i) == i = Len(TargetOrder)

\* The except clause of generate_all_visualizations (lines 498-500) ends the
\* call when a target raises; otherwise the call ends after the last target
\* (line 496).
EndsCall(o, i) == o # "ok" \/ i = Len(TargetOrder)

\* How the call ends: "except Exception" catches what a target raises and
\* returns results (lines 498-500), as does line 496 after the last target
CallEnd(o) == "returned"

\* An exception leaves the try block before the assignment to results[key]
\* (lines 476-491 and 498-500)
RecordsResult(o) == o = "ok"

\* One statement "results[key] = self.create_...(df)" of the try block
\* (lines 474-500)
RenderTarget(o) ==
    /\ vizPc = "running"
    /\ LET t == TargetOrder[nextTarget] IN
        /\ invoked' = Append(invoked, t)
        /\ df' = IF o = "raises_early" THEN df ELSE df \cup AddedColumns(t)
        /\ written' = IF o = "ok"
                      THEN written \cup {PathOf(t, output_dir, timestamp)}
                      ELSE written
        /\ results' = IF RecordsResult(o)
                      THEN Append(results, [key |-> t,
                                            path |-> PathOf(t, output_dir, timestamp)])
                      ELSE results
        /\ pathsSeen' = IF o = "ok"
                        THEN pathsSeen \cup {[key |-> t,
                                              path |-> PathOf(t, output_dir, timestamp)]}
                        ELSE pathsSeen
        /\ failedTarget' = IF o = "ok" THEN failedTarget ELSE t
        /\ IF EndsCall(o, nextTarget)
           THEN vizPc' = CallEnd(o) /\ nextTarget' = nextTarget
           ELSE vizPc' = "running" /\ nextTarget' = nextTarget + 1
    /\ UNCHANGED << output_dir, timestamp, dfGiven, runs, dfAtCall, loadResult,
                    loadOpened, loadCloseCalls >>
    /\ UNCHANGED hiveVars

\* ----------------------------------------------------------- load_hive_data

\* How load_hive_data can go (lines 64-88):
\*   refused      the import or hive.Connection(**connection_params) raises
\*   query_error  pd.read_sql(query, connection) raises
\*   close_error  connection.close() raises
\*   ok           the table is returned
LoadOutcomes == {"refused", "query_error", "close_error", "ok"}

\* line 77: hive.Connection(...) returned
LoadOpens(o) == o # "refused"

\* line 81: connection.close() is reached only when read_sql returned (line 80);
\* the except clause (lines 85-88) closes nothing
LoadCloses(o) == IF o \in {"close_error", "ok"} THEN 1 ELSE 0

\* lines 83 and 85-88: the table, or the sample data after any exception
LoadValue(o) == IF o = "ok" THEN "df" ELSE "sample"

\* load_hive_data(query, connection_params) (lines 53-88)
LoadHiveData(o) ==
    /\ vizPc \in {"ready", "returned", "raised"}
    /\ runs < MaxRuns
    /\ runs' = runs + 1
    /\ loadOpened' = LoadOpens(o)
    /\ loadCloseCalls' = LoadCloses(o)
    /\ loadResult' = LoadValue(o)
    /\ UNCHANGED << vizPc, output_dir, timestamp, df, dfGiven, nextTarget, results,
                    invoked, failedTarget, written, dfAtCall, pathsSeen >>
    /\ UNCHANGED hiveVars

NextViz ==
    \/ \E root \in Roots, ts \in 1..MaxStamp : NewGenerator(root, ts)
    \/ \E given \in BOOLEAN, table \in GivenTables : GenerateCall(given, table)
    \/ \E o \in RenderOutcomes : RenderTarget(o)
    \/ \E o \in LoadOutcomes : LoadHiveData(o)

SpecViz == Init /\ [][NextViz]_vars

\* ==================================================================== claims

\* The sessions the manager has opened so far
Sessions == 1..opened

\* The keys of the returned dict
ResultKeys == { results[i].key : i \in 1..Len(results) }

\* The targets called by the latest generate_all_visualizations
InvokedTargets == { invoked[i] : i \in 1..Len(invoked) }

\* C1: for every max_retries = N >= 1, a connect call whose first N-1 attempts
\* fail and whose Nth attempt succeeds returns True after exactly N-1
\* retry-delay waits.  (connect returns True in its Nth attempt exactly when
\* the N-1 attempts before it failed.)
C1_SuccessOnNthAfterNMinus1Waits ==
    (connectResult = "True" /\ max_retries >= 1 /\ attempts = max_retries)
        => sleeps = max_retries - 1

\* C2: for every max_retries = N >= 1, a connect call all of whose attempts fail
\* reports failure after exactly N attempts, with no wait after the last
\* attempt; in __enter__ the failure is a ConnectionError out of the with
\* statement.  While every attempt so far has failed the call neither makes
\* more than N attempts nor returns before the Nth.
C2_ExhaustedAfterNAttempts ==
    /\ attempts <= max_retries
    /\ (pc = "connect" => connectResult = "none" /\ attempts = attempt)
    /\ (connectResult = "False" /\ max_retries >= 1)
          => /\ attempts = max_retries
             /\ lastOutcome \in AttemptOutcomes \ {"row"}
             /\ ~sleptAfterLast
             /\ sleeps <= max_retries - 1
    /\ (attempts = max_retries /\ lastOutcome \in RaisingOutcomes)
          => connectResult = "False"
    /\ (scope = "refused")
          => /\ connectResult = "False"
             /\ blockOutcome = "raised"
             /\ attempts = DefaultMaxRetries
             /\ pc = "idle"

\* C2 witness: __enter__ failed after five attempts, the last one by an
\* exception of the validation query, the four before it each followed by a wait
C2_Witness ==
    /\ scope = "refused"
    /\ attempts = DefaultMaxRetries
    /\ lastOutcome = "query_error"
    /\ sleeps = DefaultMaxRetries - 1
    /\ ~sleptAfterLast

\* C3: in generate_all_visualizations a target that raises does not keep the
\* other targets from running: every other target is invoked and its artifact
\* path is in the returned result.
C3_FailureIsolated ==
    (vizPc = "returned" /\ failedTarget # "none")
        => \A t \in Targets \ {failedTarget} :
              t \in InvokedTargets /\ t \in ResultKeys

\* C4: the returned result has one entry for every target, the artifact of a
\* target that succeeded or the failure (with its reason) of one that failed.
C4_ResultCoversEveryTarget ==
    vizPc = "returned"
        => /\ Len(results) = Len(TargetOrder)
           /\ \A t \in Targets : t \in ResultKeys

\* C5: every session the manager opens is released exactly once: no connection
\* is closed twice, and when the with-block has been left every connection
\* opened so far has been closed.
C5_EverySessionReleasedOnce ==
    /\ \A s \in Sessions : connCloses[s] <= 1
    /\ scope = "exited" => \A s \in Sessions : connCloses[s] = 1

\* C6: close_connection is idempotent: a call that follows a call that returned,
\* with no connect in between, makes no release call on the cursor or the
\* connection; neither does a call on a manager that never opened a session.
C6_SecondCloseIsNoOp ==
    /\ (lastClose # "none"
        /\ closesSinceConnect - (IF lastClose = "returned" THEN 1 ELSE 0) >= 1)
          => lastCloseReleases = 0
    /\ (lastClose # "none" /\ opened = 0) => lastCloseReleases = 0

\* C7: close_connection never raises, so __exit__ never replaces the outcome
\* of the with-block by an error of the teardown.
C7_CloseNeverRaises ==
    /\ lastClose # "raised"
    /\ blockOutcome # "close_error"

\* C8: in a with-block entered by a successful connect, close_connection runs
\* exactly once on every exit path: not before the block is left, and once when
\* it has been left, whether the body completed, its query failed or it raised.
C8_ScopeClosesExactlyOnce ==
    /\ scope = "entered" => (scopeCloses = 0 /\ connectResult = "True" /\ lastClose = "none")
    /\ scope = "exited" => /\ scopeCloses = 1
                           /\ lastClose # "none"
                           /\ connectResult = "True"
                           /\ bodyOutcome \in {"ok", "query_failed", "raised"}

\* C8 witness: the body raised and the block was left with one close_connection
C8_Witness ==
    /\ scope = "exited"
    /\ bodyOutcome = "raised"
    /\ blockOutcome = "raised"
    /\ scopeCloses = 1

\* C9: connect returns True only from an attempt whose SELECT 1 returned a row
\* on the session that attempt opened, and that session is the one the manager
\* holds; an attempt whose validation fails is never a successful connect.
C9_SuccessOnlyAfterValidation ==
    /\ (connectResult = "True" /\ attempts > 0)
          => /\ lastOutcome = "row"
             /\ attemptSession # None
             /\ rowSession = attemptSession
             /\ connection = attemptSession
             /\ cursor = attemptSession
    /\ (attempts > 0 /\ lastOutcome # "row") => connectResult # "True"
    /\ pc \in {"body", "exit"} => connectResult = "True"

\* C9 witness: the first attempt opened a session whose validation returned no
\* row, the second attempt opened another one and validated it
C9_Witness ==
    /\ connectResult = "True"
    /\ attempts = 2
    /\ opened = 2
    /\ sleeps = 0
    /\ rowSession = 2
    /\ connection = 2

\* C10: within one connect call every failed attempt that is not the last is
\* followed by exactly one wait before the next attempt, however it failed.
\* (While the loop runs every attempt so far has failed.)
C10_WaitAfterEveryFailedAttempt ==
    (pc = "connect" /\ attempts >= 1 /\ attempt < max_retries)
        => sleptAfterLast /\ sleeps = attempts

\* C11: a failed connect is fatal: while the latest connect of the manager has
\* reported failure no query reaches the engine; the with-block body is not
\* entered, and execute_query returns None without executing on a cursor.
C11_NoQueryAfterFailedConnect ==
    /\ pc \in {"body", "exit"} => connectResult = "True"
    /\ (connectResult = "False" /\ queryResult # "none")
          => (queryResult = "None" /\ querySentOn = None)

\* C12: execute_query keeps "empty" and "failed" apart: a query the engine
\* executes without error and answers with zero rows gives an empty table, and
\* the value is None exactly when there is no cursor or the engine raises.
C12_EmptyIsNotFailed ==
    queryResult # "none"
        => /\ (queryEngine = "empty") => queryResult = "empty_df"
           /\ (queryResult = "None") <=> (queryEngine \in {"not_sent", "error"})

\* C12 as amended: with fetch_results true a query the engine executes without
\* error and answers with zero rows gives an empty table; the value is None
\* exactly when there is no cursor, the engine raises, or fetch_results is
\* false.
C12_EmptyIsNotFailedWhenFetched ==
    queryResult # "none"
        => /\ (queryEngine = "empty" /\ queryFetch) => queryResult = "empty_df"
           /\ (queryResult = "None")
                 <=> (queryEngine \in {"not_sent", "error"} \/ ~queryFetch)
           /\ (queryEngine = "not_sent") <=> (querySentOn = None)

\* C12 witness: a fetched query on a live cursor came back without rows
C12_Witness ==
    /\ queryResult = "empty_df"
    /\ queryEngine = "empty"
    /\ queryFetch
    /\ querySentOn # None

\* A step in which execute_query runs and the engine raises
QueryFails ==
    /\ queryResult' # "none"
    /\ calls' = calls + 1 \/ pc = "body"
    /\ queryEngine' = "error"

\* C16: a query failure leaves the session untouched: the step in which
\* execute_query fails on an engine error changes neither the manager's
\* connection and cursor nor the close() calls made on any session, and the
\* execute_query that follows it is sent to the engine on the same cursor.
C16_QueryFailureKeepsSession ==
    /\ [][QueryFails => /\ queryResult' = "None"
                        /\ connection' = connection
                        /\ cursor' = cursor
                        /\ cursor' # None
                        /\ querySentOn' = cursor
                        /\ connCloses' = connCloses
                        /\ curCloses' = curCloses]_vars
    /\ [](queryAfterError => (querySentOn # None /\ querySentOn = cursor
                              /\ queryEngine # "not_sent"))

\* C16 witness: the query after a failed one returned rows on the same cursor,
\* which was never closed
C16_Witness ==
    /\ queryAfterError
    /\ queryResult = "df"
    /\ querySentOn = cursor
    /\ curCloses[cursor] = 0
    /\ connCloses[connection] = 0

\* C13: within one generator (one output root, one timestamp) no two targets
\* write to the same path, and the path of a target is fixed by the target's
\* name, the timestamp and the output root: it is the same in every call.
C13_PathsDistinctAndFixed ==
    /\ \A i, j \in 1..Len(results) :
          i # j => results[i].path # results[j].path
    /\ \A p, q \in pathsSeen : (p.key = q.key) <=> (p.path = q.path)
    /\ \A p \in pathsSeen :
          /\ p.path.dir = output_dir
          /\ p.path.stamp = timestamp
          /\ p.path.stem = p.key
    /\ \A i \in 1..Len(results) : results[i] \in pathsSeen
    /\ Cardinality(written) = Len(results)

\* C13 witness: the second call on the generator wrote all six artifacts, to
\* six paths, the only ones the generator has ever written to
C13_Witness ==
    /\ runs = 2
    /\ vizPc = "returned"
    /\ Len(results) = Len(TargetOrder)
    /\ Cardinality(written) = Len(TargetOrder)
    /\ Cardinality(pathsSeen) = Len(TargetOrder)

\* C14: render targets are read-only consumers of the table: during and after
\* generate_all_visualizations the table has the columns it had when the call
\* received it.
C14_TargetsLeaveTableAlone ==
    vizPc \in {"running", "returned"} => df = dfAtCall

\* C15: load_hive_data releases the connection it opens on every exit path:
\* whenever hive.Connection succeeded, connection.close() has been called once
\* when load_hive_data returns, with the table or with the sample data.
C15_LoadReleasesConnection ==
    (loadResult # "none" /\ loadOpened) => loadCloseCalls = 1

\* C17: generate_all_visualizations never raises, calls the targets in the
\* fixed order, and the keys of the mapping it returns are a prefix of that
\* order: a key is present only if every earlier target succeeded.
C17_KeysArePrefixOfOrder ==
    /\ vizPc # "raised"
    /\ Len(invoked) <= Len(TargetOrder)
    /\ \A i \in 1..Len(invoked) : invoked[i] = TargetOrder[i]
    /\ Len(results) <= Len(invoked)
    /\ \A i \in 1..Len(results) : results[i].key = TargetOrder[i]
    /\ failedTarget # "none"
          => /\ vizPc = "returned"
             /\ failedTarget = TargetOrder[Len(invoked)]
             /\ Len(results) = Len(invoked) - 1
    /\ (vizPc = "returned" /\ failedTarget = "none")
          => Len(results) = Len(TargetOrder)

\* C17 witness: the fourth target raised; the call returned the first three keys
C17_Witness ==
    /\ vizPc = "returned"
    /\ failedTarget = "interactive_dashboard"
    /\ Len(invoked) = 4
    /\ Len(results) = 3
    /\ results[3].key = "temporal_analysis"

====
